---- MODULE Spec2Model ----
(***************************************************************************)
(* A model of run.py: the monthly invoice run (amain), the Google login,   *)
(* the worksheet writer and the default-month loop of __main__.            *)
(***************************************************************************)
EXTENDS Integers, Sequences, FiniteSets, TLC

\* ------------------------------------------------------------------ bounds
\* The most reviewers in invoice["dvmn_reviewers"].
MaxReviewers == 2
\* The most rows in invoice["summary"].
MaxSummaryRows == 2
\* The most rows in invoice["month_reviews"].
MaxReviewRows == 2

\* ----------------------------------------------------------- input domains
\* The reviewer ids an invoice draws its mapping keys from, in mapping order.
ReviewerNames == <<"alice", "bob", "carol", "dave", "erin">>

\* The handle the backend stores for a reviewer, when it stores one.
StoredTelegram(username) == "@" \o username \o "_tg"

\* What the operator may type at the confirmation prompt (line 124).
ConfirmInputs == {"", "y"}

\* What the operator may type at the missing-telegram prompt (line 131).
TelegramInputs == {"", "@typed"}

\* The values of GOOGLE_AUTHORIZED_USER_FILE_PATH: unset (the default '') or set.
AuthorizedUserPaths == {"", "authorized_user.json"}

\* A table of the invoice: rows <<reviewer, row id>>, the row id naming the
\* row's position in the payload. Column 1 is the reviewer column.
TableColumns == <<"Reviewer", "Row">>

RowsOver(names, maxRows) ==
    UNION { { [k \in 1..len |-> <<f[k], "row" \o ToString(k)>>] :
                f \in [1..len -> names] } : len \in 0..maxRows }

\* pd.DataFrame(data=...): the columns and the rows in payload order.
DataFrame(rows) == [columns |-> TableColumns, values |-> rows]

\* df[df['Reviewer'] == username]: a boolean-mask selection keeps row order.
SelectReviewer(df, username) ==
    [columns |-> df.columns,
     values |-> SelectSeq(df.values, LAMBDA r : r[1] = username)]

\* df.shape[0]
Shape0(df) == Len(df.values)

VARIABLES
    pc,                         \* where amain is
    err,                        \* the step whose exception is propagating, or ""
    confirm_every_reviewer,     \* config.confirm_every_reviewer
    authorized_user_file_path,  \* config.google_authorized_user_file_path
    authorized_user_file,       \* whether a file exists at that path
    google_client,              \* GoogleLoginer.google_client is not None
    dvmn_reviewers,             \* invoice["dvmn_reviewers"], in items() order
    summary_df,
    month_reviews_df,
    i,                          \* how many items of the mapping the loop has taken
    dvmn_reviewer_telegram,     \* the loop variable of that name
    spreadsheets,               \* the spreadsheets that exist at the backend
    messages,                   \* the messages Telegram has delivered
    tg_sessions,                \* the open Telegram sessions, by the reviewer served
    prompts,                    \* the input() calls made: <<kind, username>>
    responses,                  \* what each input() call returned, in call order
    log,                        \* the log lines: <<level, what, username>>
    visited,                    \* the usernames the loop has taken, in order
    now,                        \* __main__: datetime.now() as <<year, month, day>>
    day,                        \* __main__: the loop variable
    default_month,
    default_year,
    main_pc                     \* where the default-month loop is

avars == <<pc, err, confirm_every_reviewer, authorized_user_file_path,
           authorized_user_file, google_client, dvmn_reviewers, summary_df,
           month_reviews_df, i, dvmn_reviewer_telegram, spreadsheets, messages,
           tg_sessions, prompts, responses, log, visited>>

mvars == <<now, day, default_month, default_year, main_pc>>

vars == <<avars, mvars>>

\* ------------------------------------------------------------- amain: setup
\* The steps of one reviewer's iteration that call the backend or Telegram.
ReviewerSteps ==
    {"create", "share", "write_reviews", "write_summary", "open", "send"}

\* A retry policy: a failed step of an iteration starts the iteration's
\* backend work again.
OnErrorRetry(step) == IF step \in ReviewerSteps THEN "create" ELSE "failed"

\* Per-reviewer error isolation: a failed step is dropped and the loop goes on.
OnErrorContinue(step) == IF step \in ReviewerSteps THEN "loop" ELSE "failed"

\* The pc an exception leaves amain at: nothing in amain catches, so the
\* coroutine ends and run_until_complete re-raises.
OnError(step) == "failed"

Raise(step) ==
    /\ pc' = OnError(step)
    /\ err' = step

AmainInit ==
    /\ pc = "template"
    /\ err = ""
    /\ confirm_every_reviewer \in BOOLEAN
    /\ authorized_user_file_path \in AuthorizedUserPaths
    /\ authorized_user_file \in BOOLEAN
    \* os.path.exists('') is False: no file has the empty path.
    /\ authorized_user_file_path = "" => authorized_user_file = FALSE
    /\ google_client = FALSE
    /\ dvmn_reviewers = <<>>
    /\ summary_df = DataFrame(<<>>)
    /\ month_reviews_df = DataFrame(<<>>)
    /\ i = 0
    /\ dvmn_reviewer_telegram = ""
    /\ spreadsheets = <<>>
    /\ messages = <<>>
    /\ tg_sessions = <<>>
    /\ prompts = <<>>
    /\ responses = <<>>
    /\ log = <<>>
    /\ visited = <<>>

\* __main__ is past its default-month loop when amain runs.
MainIdle ==
    /\ now = <<2024, 1, 1>>
    /\ day = 1
    /\ default_month = 12
    /\ default_year = 2023
    /\ main_pc = "config"

Init == AmainInit /\ MainIdle

\* Lines 103-104: read the message template.
LoadTemplate ==
    /\ pc = "template"
    /\ \/ pc' = "login" /\ err' = err
       \/ Raise("template")
    /\ UNCHANGED <<confirm_every_reviewer, authorized_user_file_path,
                   authorized_user_file, google_client, dvmn_reviewers,
                   summary_df, month_reviews_df, i, dvmn_reviewer_telegram,
                   spreadsheets, messages, tg_sessions, prompts, responses, log,
                   visited>>
    /\ UNCHANGED mvars

\* os.path.exists(path) of line 60.
PathExists(path, file) == path # "" /\ file

\* open(path, 'w') of line 71: the empty path names no file, so open raises
\* FileNotFoundError; any other path is created or truncated.
OpenForWriteRaises(path) == path = ""

\* Lines 107-108 and 59-80: get_google_client() on a fresh GoogleLoginer calls
\* _login(): the stored-session branch (lines 61-63) when PathExists, else the
\* credentials exchange (lines 65-67); both end in a client and a session to
\* store, so the client is kept and the session is written back to
\* authorized_user_file_path.
Login ==
    /\ pc = "login"
    /\ \/ \* lines 61-67 raise: an unreadable file or a refused exchange
          /\ Raise("oauth")
          /\ UNCHANGED <<google_client, authorized_user_file>>
       \/ \* line 69 is reached, then line 71 opens the file for writing
          /\ google_client' = TRUE
          /\ IF OpenForWriteRaises(authorized_user_file_path)
             THEN /\ Raise("persist")
                  /\ UNCHANGED authorized_user_file
             ELSE /\ authorized_user_file' = TRUE
                  /\ pc' = "fetch"
                  /\ err' = err
    /\ UNCHANGED <<confirm_every_reviewer, authorized_user_file_path,
                   dvmn_reviewers, summary_df, month_reviews_df, i,
                   dvmn_reviewer_telegram, spreadsheets, messages, tg_sessions,
                   prompts, responses, log, visited>>
    /\ UNCHANGED mvars

\* The invoices get_invoice may return: n reviewers, each with its stored
\* handle or none, and the two tables over those reviewers.
Mappings(n) ==
    { [k \in 1..n |-> <<ReviewerNames[k], h[k]>>] :
        h \in [1..n -> BOOLEAN] }

MappingOf(m) ==
    [k \in 1..Len(m) |->
        [username |-> m[k][1],
         telegram |-> IF m[k][2] THEN StoredTelegram(m[k][1]) ELSE ""]]

NamesOf(n) == { ReviewerNames[k] : k \in 1..n }

\* Lines 110-113: one GET; raise_for_status() raises on a non-2xx answer.
GetInvoice ==
    /\ pc = "fetch"
    /\ \/ /\ Raise("fetch")
          /\ UNCHANGED <<dvmn_reviewers, summary_df, month_reviews_df>>
       \/ \E n \in 0..MaxReviewers :
            \E m \in Mappings(n) :
              \E s \in RowsOver(NamesOf(n), MaxSummaryRows) :
                \E r \in RowsOver(NamesOf(n), MaxReviewRows) :
                  /\ dvmn_reviewers' = MappingOf(m)
                  /\ summary_df' = DataFrame(s)
                  /\ month_reviews_df' = DataFrame(r)
                  /\ pc' = "loop"
                  /\ err' = err
    /\ UNCHANGED <<confirm_every_reviewer, authorized_user_file_path,
                   authorized_user_file, google_client, i,
                   dvmn_reviewer_telegram, spreadsheets, messages, tg_sessions,
                   prompts, responses, log, visited>>
    /\ UNCHANGED mvars

\* ---------------------------------------------------- the spreadsheet backend
\* google_client.create(name): a new spreadsheet holds one empty worksheet.
Create(name) ==
    [name |-> name,
     shared |-> FALSE,
     worksheets |-> <<[title |-> "Sheet1", rows |-> <<>>]>>]

BlankRows(n) == [k \in 1..n |-> <<>>]

\* worksheet.insert_rows(values, row): the values become rows row, row+1, ...
\* and the rows that were there move down (rows past the content are blank).
InsertRows(rows, values, row) ==
    LET padded == IF Len(rows) < row - 1
                  THEN rows \o BlankRows(row - 1 - Len(rows))
                  ELSE rows
    IN SubSeq(padded, 1, row - 1) \o values \o SubSeq(padded, row, Len(padded))

\* The data rows inserted at the header's own row.
first_row_is_header == 2 - 1

\* Line 95.
first_row_after_header == 2

\* Lines 83-96. worksheet_index counts from 0, as get_worksheet does. calls is
\* how far the function gets before a backend call raises: 0 nothing done,
\* 1 the worksheet renamed or added, 2 the header inserted, 3 it returns.
write_df_to_worksheet(spreadsheet, df, worksheet_index, worksheet_name, calls) ==
    LET ws == spreadsheet.worksheets
        found == worksheet_index < Len(ws)
        worksheets_count == Len(ws)
        titled == IF found
                  THEN [ws EXCEPT ![worksheet_index + 1].title = worksheet_name]
                  ELSE Append(ws, [title |-> worksheet_name, rows |-> <<>>])
        target == IF found THEN worksheet_index + 1 ELSE worksheets_count + 1
        headed == [titled EXCEPT ![target].rows =
                        InsertRows(@, <<df.columns>>, 1)]
        filled == [headed EXCEPT ![target].rows =
                        InsertRows(@, df.values, first_row_after_header)]
    IN [spreadsheet EXCEPT !.worksheets =
            CASE calls = 0 -> ws
              [] calls = 1 -> titled
              [] calls = 2 -> headed
              [] OTHER -> filled]

\* -------------------------------------------------------------- amain: loop
\* The key of the item the loop holds.
dvmn_reviewer_username == dvmn_reviewers[i].username

\* Line 115: the for statement takes the next item of the mapping.
NextItem(k) == k + 1

\* The no-work test left out.
NoWorkNever(reviewer_summary_df) == FALSE

\* Line 118: `not reviewer_summary_df.shape[0]`.
NoWork(reviewer_summary_df) == Shape0(reviewer_summary_df) = 0

\* The confirmation test inverted: `if process_reviewer`.
DeclinedInverted(process_reviewer) == process_reviewer # ""

\* Line 125: `not process_reviewer`.
Declined(process_reviewer) == process_reviewer = ""

\* Lines 129 and 132: `not dvmn_reviewer_telegram`.
NoTelegram(telegram) == telegram = ""

\* The message sent as soon as the spreadsheet is shared, the worksheets
\* never written.
StepAfterNoWrites(step) ==
    CASE step = "create" -> "share"
      [] step = "share" -> "open"
      [] step = "open" -> "send"
      [] step = "send" -> "exit"
      [] OTHER -> "loop"

\* The order of the statements of lines 138-153 and the loop's back edge.
StepAfter(step) ==
    CASE step = "create" -> "share"
      [] step = "share" -> "write_reviews"
      [] step = "write_reviews" -> "write_summary"
      [] step = "write_summary" -> "open"
      [] step = "open" -> "send"
      [] step = "send" -> "exit"
      [] OTHER -> "loop"

\* Lines 129-134 up to the input() call: with a handle the iteration goes on
\* to line 136, without one the operator is asked.
AskOrCreate(username, telegram) ==
    IF NoTelegram(telegram)
    THEN /\ pc' = "ask_telegram"
         /\ prompts' = Append(prompts, <<"telegram", username>>)
    ELSE /\ pc' = "create"
         /\ prompts' = prompts

\* Lines 115-131, to the first input() call or to line 136.
NextReviewer ==
    /\ pc = "loop"
    /\ IF i = Len(dvmn_reviewers)
       THEN /\ pc' = "done"
            /\ UNCHANGED <<i, dvmn_reviewer_telegram, prompts, log, visited>>
       ELSE LET k == NextItem(i)
                username == dvmn_reviewers[k].username
                telegram == dvmn_reviewers[k].telegram
                reviewer_summary_df == SelectReviewer(summary_df, username)
            IN /\ i' = k
               /\ dvmn_reviewer_telegram' = telegram
               /\ visited' = Append(visited, username)
               /\ IF NoWork(reviewer_summary_df)
                  THEN /\ log' = Append(log, <<"info", "no_work", username>>)
                       /\ pc' = "loop"
                       /\ prompts' = prompts
                  ELSE /\ log' = log
                       /\ IF confirm_every_reviewer
                          THEN /\ pc' = "confirm"
                               /\ prompts' = Append(prompts, <<"confirm", username>>)
                          ELSE AskOrCreate(username, telegram)
    /\ UNCHANGED <<err, confirm_every_reviewer, authorized_user_file_path,
                   authorized_user_file, google_client, dvmn_reviewers,
                   summary_df, month_reviews_df, spreadsheets, messages,
                   tg_sessions, responses>>
    /\ UNCHANGED mvars

\* Lines 124-127: input() returns (or raises EOFError on a closed stdin).
AnswerConfirm ==
    /\ pc = "confirm"
    /\ \/ /\ Raise("input")
          /\ UNCHANGED <<responses, prompts, log>>
       \/ \E process_reviewer \in ConfirmInputs :
            /\ responses' = Append(responses, process_reviewer)
            /\ err' = err
            /\ IF Declined(process_reviewer)
               THEN /\ log' = Append(log, <<"info", "skip", dvmn_reviewer_username>>)
                    /\ pc' = "loop"
                    /\ prompts' = prompts
               ELSE /\ log' = log
                    /\ AskOrCreate(dvmn_reviewer_username, dvmn_reviewer_telegram)
    /\ UNCHANGED <<confirm_every_reviewer, authorized_user_file_path,
                   authorized_user_file, google_client, dvmn_reviewers,
                   summary_df, month_reviews_df, i, dvmn_reviewer_telegram,
                   spreadsheets, messages, tg_sessions, visited>>
    /\ UNCHANGED mvars

\* Lines 131-134: the typed handle replaces the loop variable.
AnswerTelegram ==
    /\ pc = "ask_telegram"
    /\ \/ /\ Raise("input")
          /\ UNCHANGED <<responses, dvmn_reviewer_telegram, log>>
       \/ \E typed \in TelegramInputs :
            /\ responses' = Append(responses, typed)
            /\ dvmn_reviewer_telegram' = typed
            /\ err' = err
            /\ IF NoTelegram(typed)
               THEN /\ log' = Append(log, <<"warning", "no_telegram",
                                            dvmn_reviewer_username>>)
                    /\ pc' = "loop"
               ELSE /\ log' = log
                    /\ pc' = "create"
    /\ UNCHANGED <<confirm_every_reviewer, authorized_user_file_path,
                   authorized_user_file, google_client, dvmn_reviewers,
                   summary_df, month_reviews_df, i, spreadsheets, messages,
                   tg_sessions, prompts, visited>>
    /\ UNCHANGED mvars

\* Lines 136-139: the spreadsheet named after the reviewer is created.
CreateSpreadsheet ==
    /\ pc = "create"
    /\ \/ /\ Raise("create")
          /\ UNCHANGED spreadsheets
       \/ /\ spreadsheets' = Append(spreadsheets, Create(dvmn_reviewer_username))
          /\ pc' = StepAfter("create")
          /\ err' = err
    /\ UNCHANGED <<confirm_every_reviewer, authorized_user_file_path,
                   authorized_user_file, google_client, dvmn_reviewers,
                   summary_df, month_reviews_df, i, dvmn_reviewer_telegram,
                   messages, tg_sessions, prompts, responses, log, visited>>
    /\ UNCHANGED mvars

\* Line 140: anyone with the link may read.
Share ==
    /\ pc = "share"
    /\ \/ /\ Raise("share")
          /\ UNCHANGED spreadsheets
       \/ /\ spreadsheets' = [spreadsheets EXCEPT ![Len(spreadsheets)].shared = TRUE]
          /\ pc' = StepAfter("share")
          /\ err' = err
    /\ UNCHANGED <<confirm_every_reviewer, authorized_user_file_path,
                   authorized_user_file, google_client, dvmn_reviewers,
                   summary_df, month_reviews_df, i, dvmn_reviewer_telegram,
                   messages, tg_sessions, prompts, responses, log, visited>>
    /\ UNCHANGED mvars

\* One call of write_df_to_worksheet on the spreadsheet of this iteration.
WriteDf(step, df, worksheet_index, worksheet_name) ==
    /\ pc = step
    /\ \E calls \in 0..3 :
         /\ spreadsheets' =
               [spreadsheets EXCEPT ![Len(spreadsheets)] =
                   write_df_to_worksheet(@, df, worksheet_index,
                                         worksheet_name, calls)]
         /\ IF calls = 3
            THEN pc' = StepAfter(step) /\ err' = err
            ELSE Raise(step)
    /\ UNCHANGED <<confirm_every_reviewer, authorized_user_file_path,
                   authorized_user_file, google_client, dvmn_reviewers,
                   summary_df, month_reviews_df, i, dvmn_reviewer_telegram,
                   messages, tg_sessions, prompts, responses, log, visited>>
    /\ UNCHANGED mvars

\* Line 142.
WriteReviews ==
    WriteDf("write_reviews",
            SelectReviewer(month_reviews_df, dvmn_reviewer_username),
            0, "Reviews")

\* Line 143.
WriteSummary ==
    WriteDf("write_summary",
            SelectReviewer(summary_df, dvmn_reviewer_username),
            1, "Summary")

\* The handle of the mapping, whatever the operator typed.
RecipientFromMapping == dvmn_reviewers[i].telegram

\* Line 153: the first argument of send_message.
Recipient == dvmn_reviewer_telegram

\* Lines 145-152: the client is built, the message rendered, and `async with`
\* enters the client (connects); a failure here leaves no session.
OpenSession ==
    /\ pc = "open"
    /\ \/ /\ Raise("open")
          /\ UNCHANGED tg_sessions
       \/ /\ tg_sessions' = Append(tg_sessions, dvmn_reviewer_username)
          /\ pc' = StepAfter("open")
          /\ err' = err
    /\ UNCHANGED <<confirm_every_reviewer, authorized_user_file_path,
                   authorized_user_file, google_client, dvmn_reviewers,
                   summary_df, month_reviews_df, i, dvmn_reviewer_telegram,
                   spreadsheets, messages, prompts, responses, log, visited>>
    /\ UNCHANGED mvars

\* Line 153: the message goes out, or send_message raises inside the block.
SendMessage ==
    /\ pc = "send"
    /\ \/ /\ err' = "send"
          /\ UNCHANGED messages
       \/ /\ messages' = Append(messages,
                                [to |-> Recipient,
                                 username |-> dvmn_reviewer_username,
                                 spreadsheet |-> Len(spreadsheets)])
          /\ err' = err
    /\ pc' = StepAfter("send")
    /\ UNCHANGED <<confirm_every_reviewer, authorized_user_file_path,
                   authorized_user_file, google_client, dvmn_reviewers,
                   summary_df, month_reviews_df, i, dvmn_reviewer_telegram,
                   spreadsheets, tg_sessions, prompts, responses, log, visited>>
    /\ UNCHANGED mvars

\* A plain connect/send/disconnect sequence: a raising send skips the
\* disconnect.
AfterExitUnlessRaised(sessions, raised) ==
    IF raised THEN sessions ELSE SubSeq(sessions, 1, Len(sessions) - 1)

\* The sessions left open when the `async with` block is left: __aexit__
\* disconnects the client whether or not the block raised.
AfterExit(sessions, raised) == SubSeq(sessions, 1, Len(sessions) - 1)

\* Line 152, leaving the block: the session is closed, then a pending
\* exception goes on propagating, else the loop takes its next item.
ExitSession ==
    /\ pc = "exit"
    /\ tg_sessions' = AfterExit(tg_sessions, err # "")
    /\ pc' = IF err # "" THEN OnError(err) ELSE StepAfter("exit")
    /\ UNCHANGED <<err, confirm_every_reviewer, authorized_user_file_path,
                   authorized_user_file, google_client, dvmn_reviewers,
                   summary_df, month_reviews_df, i, dvmn_reviewer_telegram,
                   spreadsheets, messages, prompts, responses, log, visited>>
    /\ UNCHANGED mvars

Next ==
    \/ LoadTemplate
    \/ Login
    \/ GetInvoice
    \/ NextReviewer
    \/ AnswerConfirm
    \/ AnswerTelegram
    \/ CreateSpreadsheet
    \/ Share
    \/ WriteReviews
    \/ WriteSummary
    \/ OpenSession
    \/ SendMessage
    \/ ExitSession

Spec == Init /\ [][Next]_vars

\* --------------------------------------------- __main__: the default month
\* The years datetime.now() is drawn from: a leap year, a leap century year,
\* a century year that is no leap year, and a common year.
NowYears == {2000, 2023, 2024, 2100}

IsLeap(y) == y % 4 = 0 /\ (y % 100 # 0 \/ y % 400 = 0)

DaysInMonth(y, m) ==
    IF m = 2 THEN (IF IsLeap(y) THEN 29 ELSE 28)
    ELSE IF m \in {4, 6, 9, 11} THEN 30 ELSE 31

\* The days before January 1st of year y, counted from 0001-01-01.
DaysBeforeYear(y) ==
    (y - 1) * 365 + ((y - 1) \div 4) - ((y - 1) \div 100) + ((y - 1) \div 400)

RECURSIVE DaysBeforeMonth(_, _)
DaysBeforeMonth(y, m) ==
    IF m = 1 THEN 0 ELSE DaysBeforeMonth(y, m - 1) + DaysInMonth(y, m - 1)

\* date.toordinal(): 0001-01-01 is day 1.
ToOrdinal(d) == DaysBeforeYear(d[1]) + DaysBeforeMonth(d[1], d[2]) + d[3]

RECURSIVE YearOf(_, _)
YearOf(n, y) == IF n <= DaysBeforeYear(y + 1) THEN y ELSE YearOf(n, y + 1)

RECURSIVE MonthOf(_, _, _)
MonthOf(n, y, m) ==
    IF n <= DaysBeforeMonth(y, m) + DaysInMonth(y, m) THEN m
    ELSE MonthOf(n, y, m + 1)

\* date.fromordinal(n), for n >= 1.
FromOrdinal(n) ==
    LET y == YearOf(n, (n \div 366) + 1)
        inYear == n - DaysBeforeYear(y)
        m == MonthOf(inYear, y, 1)
    IN <<y, m, inYear - DaysBeforeMonth(y, m)>>

\* now - datetime.timedelta(days=k): the time of day is kept, the date moves.
MinusDays(d, k) == FromOrdinal(ToOrdinal(d) - k)

Dates ==
    { <<y, m, d>> : y \in NowYears, m \in 1..12, d \in 1..31 } \cap
    { dt \in NowYears \X (1..12) \X (1..31) : dt[3] <= DaysInMonth(dt[1], dt[2]) }

\* Line 163.
max_days_in_month == 31

\* The range with its end left out: range(1, max_days_in_month).
DayRangeShort == 1..(max_days_in_month - 1)

\* Line 164: range(1, max_days_in_month + 1).
DayRange == 1..max_days_in_month

\* amain has not been called while __main__ computes the defaults.
AmainIdle ==
    /\ pc = "not_called"
    /\ err = ""
    /\ confirm_every_reviewer = FALSE
    /\ authorized_user_file_path = ""
    /\ authorized_user_file = FALSE
    /\ google_client = FALSE
    /\ dvmn_reviewers = <<>>
    /\ summary_df = DataFrame(<<>>)
    /\ month_reviews_df = DataFrame(<<>>)
    /\ i = 0
    /\ dvmn_reviewer_telegram = ""
    /\ spreadsheets = <<>>
    /\ messages = <<>>
    /\ tg_sessions = <<>>
    /\ prompts = <<>>
    /\ responses = <<>>
    /\ log = <<>>
    /\ visited = <<>>

\* Line 162, and the loop about to take its first value.
MainInit ==
    /\ now \in Dates
    /\ day = 1
    /\ default_month = 0
    /\ default_year = 0
    /\ main_pc = "loop"
    /\ AmainIdle

\* Lines 164-169, one iteration: the loop ends without a break when the range
\* is used up (default_month is then unbound at line 175), else the date
\* `day` days back is compared with now's month.
DefaultMonthStep ==
    /\ main_pc = "loop"
    /\ IF day \notin DayRange
       THEN /\ main_pc' = "unbound"
            /\ UNCHANGED <<day, default_month, default_year>>
       ELSE LET prev_month_date == MinusDays(now, day)
            IN IF prev_month_date[2] # now[2]
               THEN /\ default_month' = prev_month_date[2]
                    /\ default_year' = prev_month_date[1]
                    /\ main_pc' = "config"
                    /\ day' = day
               ELSE /\ day' = day + 1
                    /\ UNCHANGED <<default_month, default_year, main_pc>>
    /\ now' = now
    /\ UNCHANGED avars

MainNext == DefaultMonthStep

SpecMain == MainInit /\ [][MainNext]_vars

\* ------------------------------------------------------------------ claims
\* The calendar month before the month of date d, with its year.
MonthBefore(d) == IF d[2] = 1 THEN <<d[1] - 1, 12>> ELSE <<d[1], d[2] - 1>>

\* C3: for every current date the default-month loop finds, within its 31
\* offsets, a first offset whose date lies in another month; it stops there,
\* never leaves default_month unbound, and the defaults are the calendar month
\* just before now's month with its year (December of the year before when
\* now is in January).
C3_DefaultMonth ==
    /\ main_pc # "unbound"
    /\ main_pc = "loop" => day <= max_days_in_month
    /\ main_pc = "config" =>
          /\ day \in 1..max_days_in_month
          /\ \A k \in 1..(day - 1) : MinusDays(now, k)[2] = now[2]
          /\ MinusDays(now, day)[2] # now[2]
          /\ <<default_year, default_month>> = MonthBefore(now)

\* C3's case: the 31st of January, whose boundary is the last offset tried.
C3_Witness ==
    /\ main_pc = "config"
    /\ now[2] = 1
    /\ now[3] = 31
    /\ day = 31
    /\ default_month = 12
    /\ default_year = now[1] - 1

\* ---- what the claims about amain speak of
Reviewers == 1..Len(dvmn_reviewers)
UsernameOf(k) == dvmn_reviewers[k].username
SheetsOf(u) == { j \in 1..Len(spreadsheets) : spreadsheets[j].name = u }
MessagesOf(u) == { j \in 1..Len(messages) : messages[j].username = u }
PromptsOf(u) == { j \in 1..Len(prompts) : prompts[j][2] = u }
VisitsOf(u) == { j \in 1..Len(visited) : visited[j] = u }
LogLinesOf(u) == { j \in 1..Len(log) : log[j][3] = u }
SummaryRowsOf(u) == SelectSeq(summary_df.values, LAMBDA r : r[1] = u)
ReviewRowsOf(u) == SelectSeq(month_reviews_df.values, LAMBDA r : r[1] = u)

\* input() call j has returned, and returned r.
Answered(kind, u, r) ==
    \E j \in 1..Len(responses) : prompts[j] = <<kind, u>> /\ responses[j] = r
Asked(kind, u) == \E j \in 1..Len(prompts) : prompts[j] = <<kind, u>>

\* The two worksheets a finished spreadsheet of reviewer u holds.
WrittenSheets(u) ==
    <<[title |-> "Reviews", rows |-> <<TableColumns>> \o ReviewRowsOf(u)],
      [title |-> "Summary", rows |-> <<TableColumns>> \o SummaryRowsOf(u)]>>

\* Spreadsheet j is past both write_df_to_worksheet calls.
Written(j) ==
    \/ j < Len(spreadsheets)
    \/ /\ pc \notin {"share", "write_reviews", "write_summary"}
       /\ err \notin {"share", "write_reviews", "write_summary"}

\* C1: a reviewer of the mapping with no summary row gets no prompt, no
\* spreadsheet and no message, one log line once visited, and the loop goes
\* on from that reviewer to the next item (or to the end of the mapping).
C1_NoWorkSkipped ==
    \A k \in Reviewers :
        LET u == UsernameOf(k)
        IN SummaryRowsOf(u) = <<>> =>
              /\ SheetsOf(u) = {}
              /\ MessagesOf(u) = {}
              /\ PromptsOf(u) = {}
              /\ Cardinality(LogLinesOf(u)) = (IF k <= i THEN 1 ELSE 0)
              /\ i = k => pc \in {"loop", "done"}

\* C1's case: a reviewer without work was passed and a later one got a message.
C1_Witness ==
    \E k \in Reviewers :
        /\ SummaryRowsOf(UsernameOf(k)) = <<>>
        /\ k < i
        /\ MessagesOf(UsernameOf(i)) # {}

\* C2: in every state of a run each reviewer id of the mapping has been
\* visited at most once, has at most one spreadsheet and at most one message.
C2_AtMostOnce ==
    \A k \in Reviewers :
        LET u == UsernameOf(k)
        IN /\ Cardinality(VisitsOf(u)) <= 1
           /\ Cardinality(SheetsOf(u)) <= 1
           /\ Cardinality(MessagesOf(u)) <= 1

\* C2's case: two reviewers were each visited, given a spreadsheet and a message.
C2_Witness ==
    /\ Len(visited) >= 2
    /\ Len(spreadsheets) >= 2
    /\ Len(messages) >= 2

\* Reviewer u has a finished, shared spreadsheet and its message.
Processed(u) ==
    /\ Cardinality(SheetsOf(u)) = 1
    /\ Cardinality(MessagesOf(u)) = 1
    /\ \A j \in SheetsOf(u) :
          spreadsheets[j].shared /\ spreadsheets[j].worksheets = WrittenSheets(u)

\* C4: once creation, sharing, a worksheet write or the send has failed for
\* reviewer k the run is over at k (the open session is closed on the way out):
\* no later reviewer is visited, prompted, given a spreadsheet or a message,
\* and each earlier reviewer is as it was left, skipped or fully processed.
C4_FailureEndsRun ==
    err \in ReviewerSteps =>
        /\ pc \in {"failed", "exit"}
        /\ pc = "exit" => err = "send"
        /\ \A k \in Reviewers :
              LET u == UsernameOf(k)
              IN /\ k > i => /\ VisitsOf(u) = {}
                             /\ PromptsOf(u) = {}
                             /\ SheetsOf(u) = {}
                             /\ MessagesOf(u) = {}
                 /\ k < i => \/ SheetsOf(u) = {} /\ MessagesOf(u) = {}
                             \/ Processed(u)

\* C4's case: the send to the first reviewer failed after its spreadsheet was
\* written, and a second reviewer with work is left unprocessed.
C4_Witness ==
    /\ pc = "failed"
    /\ err = "send"
    /\ i = 1
    /\ Len(dvmn_reviewers) >= 2
    /\ SummaryRowsOf(UsernameOf(2)) # <<>>
    /\ Len(spreadsheets) = 1

\* The iteration of reviewer k is at, or failed at, line 138, or made the
\* spreadsheet.
Proceeded(k) ==
    \/ SheetsOf(UsernameOf(k)) # {}
    \/ i = k /\ (pc = "create" \/ err = "create")

\* C5: for a reviewer with work, the confirmation prompt is made exactly when
\* confirm_every_reviewer is set, and the handle prompt exactly when the
\* iteration gets to line 129 with an empty handle; an empty answer to either
\* skips the reviewer (no spreadsheet, no message, the loop goes on), and any
\* other answer proceeds.
C5_OperatorSkips ==
    /\ (\E j \in 1..Len(prompts) : prompts[j][1] = "confirm")
          => confirm_every_reviewer
    /\ \A k \in Reviewers :
          LET u == UsernameOf(k)
              handle == dvmn_reviewers[k].telegram
          IN /\ (k <= i /\ SummaryRowsOf(u) # <<>> /\ confirm_every_reviewer)
                   => Asked("confirm", u)
             /\ Asked("telegram", u) => handle = ""
             /\ (k <= i /\ SummaryRowsOf(u) # <<>> /\ handle = ""
                    /\ (~confirm_every_reviewer \/ Answered("confirm", u, "y")))
                   => Asked("telegram", u)
             /\ Answered("confirm", u, "") => ~Asked("telegram", u)
             /\ (Answered("confirm", u, "") \/ Answered("telegram", u, ""))
                   => /\ SheetsOf(u) = {}
                      /\ MessagesOf(u) = {}
                      /\ i = k => pc \in {"loop", "done"}
             /\ (Answered("confirm", u, "y") /\ handle # "") => Proceeded(k)
             /\ Answered("telegram", u, "@typed") => Proceeded(k)

\* C5's case: one reviewer declined at the confirmation prompt, the next one
\* left without a handle, and the run ended normally.
C5_Witness ==
    /\ pc = "done"
    /\ \E k \in Reviewers : Answered("confirm", UsernameOf(k), "")
    /\ \E k \in Reviewers : Answered("telegram", UsernameOf(k), "")

\* C6: every message goes to the handle the mapping holds for its reviewer
\* when there is one, else to the non-empty handle the operator typed at that
\* reviewer's own prompt; the mapping keeps the handles it was fetched with.
C6_Recipient ==
    /\ \A j \in 1..Len(messages) :
          LET m == messages[j]
              k == CHOOSE k \in Reviewers : UsernameOf(k) = m.username
              handle == dvmn_reviewers[k].telegram
          IN /\ m.to # ""
             /\ IF handle # "" THEN m.to = handle
                ELSE Answered("telegram", m.username, m.to)
    /\ \A k \in Reviewers :
          dvmn_reviewers[k].telegram \in {"", StoredTelegram(UsernameOf(k))}

\* C6's case: a message to a typed handle, then one to a stored handle.
C6_Witness ==
    /\ Len(messages) >= 2
    /\ messages[1].to = "@typed"
    /\ messages[2].to = StoredTelegram(messages[2].username)

\* C7: at most one Telegram session is open; an open session serves the
\* reviewer of the current iteration and exists only between entering and
\* leaving the `async with` block, so none is open when the loop takes its
\* next item, when the run is done or when it has failed.
C7_OneSession ==
    /\ Len(tg_sessions) <= 1
    /\ tg_sessions # <<>> =>
          /\ pc \in {"send", "exit"}
          /\ tg_sessions[1] = dvmn_reviewer_username
    /\ pc \in {"send", "exit"} => Len(tg_sessions) = 1

\* C7's case: the send raised and the run ended with the session closed.
C7_Witness ==
    /\ pc = "failed"
    /\ err = "send"
    /\ tg_sessions = <<>>

\* A spreadsheet with n empty worksheets.
SheetsWith(n) ==
    [name |-> "any", shared |-> FALSE,
     worksheets |-> [k \in 1..n |-> [title |-> "Sheet" \o ToString(k),
                                      rows |-> <<>>]]]

\* C8: a spreadsheet past both writes holds exactly the worksheets "Reviews"
\* and "Summary", each the header row followed by the reviewer's rows in
\* payload order; after the first write the one worksheet is renamed and
\* filled. Wherever write_df_to_worksheet is called, on a spreadsheet of any
\* worksheet count and for any slot, a worksheet found at the slot is renamed
\* and the count stays, a missing slot adds one worksheet at the position of
\* the old count, and that one is written.
C8_Worksheets ==
    /\ \A j \in 1..Len(spreadsheets) :
          Written(j) =>
              spreadsheets[j].worksheets = WrittenSheets(spreadsheets[j].name)
    /\ pc = "write_summary" =>
          spreadsheets[Len(spreadsheets)].worksheets =
              <<WrittenSheets(dvmn_reviewer_username)[1]>>
    /\ pc \in {"write_reviews", "write_summary"} =>
          \A n \in 0..2, slot \in 0..3 :
              LET df == IF pc = "write_reviews"
                        THEN SelectReviewer(month_reviews_df, dvmn_reviewer_username)
                        ELSE SelectReviewer(summary_df, dvmn_reviewer_username)
                  before == SheetsWith(n)
                  after == write_df_to_worksheet(before, df, slot, "Name", 3)
                  filled == [title |-> "Name",
                             rows |-> <<TableColumns>> \o df.values]
              IN IF slot < n
                 THEN after.worksheets =
                          [before.worksheets EXCEPT ![slot + 1] = filled]
                 ELSE after.worksheets = Append(before.worksheets, filled)

\* C8's case: a finished spreadsheet with no review row and two summary rows.
C8_Witness ==
    /\ pc = "done"
    /\ \E j \in 1..Len(spreadsheets) :
          /\ Len(spreadsheets[j].worksheets) = 2
          /\ Len(spreadsheets[j].worksheets[1].rows) = 1
          /\ Len(spreadsheets[j].worksheets[2].rows) = 3

\* C9: with the authorized-session path left at its default '' the login goes
\* through the credentials exchange, writes the session back and the run goes
\* on to fetch the invoice.
C9_OptionalSessionPath ==
    (/\ authorized_user_file_path = ""
     /\ ~PathExists(authorized_user_file_path, authorized_user_file)
     /\ google_client) =>
        /\ authorized_user_file
        /\ err # "persist"
        /\ pc # "failed"

\* C10: a reviewer with a message has a spreadsheet that was created, shared
\* and written in both worksheets before the send; the steps of an iteration
\* come in that order; and the spreadsheets outnumber the messages by 0 or 1,
\* by 1 only for the reviewer in hand or the one the run failed at.
C10_Order ==
    /\ \A j \in 1..Len(messages) :
          LET m == messages[j]
          IN /\ m.spreadsheet \in 1..Len(spreadsheets)
             /\ spreadsheets[m.spreadsheet].name = m.username
             /\ spreadsheets[m.spreadsheet].shared
             /\ spreadsheets[m.spreadsheet].worksheets = WrittenSheets(m.username)
    /\ Len(spreadsheets) - Len(messages) \in {0, 1}
    /\ Len(spreadsheets) - Len(messages) = 1 =>
          /\ spreadsheets[Len(spreadsheets)].name = dvmn_reviewer_username
          /\ \/ pc \in ReviewerSteps \ {"create"}
             \/ pc \in {"exit", "failed"} /\ err \in ReviewerSteps \ {"create"}
    /\ pc = "share" => ~spreadsheets[Len(spreadsheets)].shared
    /\ pc \in {"write_reviews", "write_summary", "open", "send"} =>
          /\ spreadsheets[Len(spreadsheets)].shared
          /\ MessagesOf(dvmn_reviewer_username) = {}
    /\ pc = "write_reviews" =>
          spreadsheets[Len(spreadsheets)].worksheets = Create("any").worksheets
    /\ pc \in {"open", "send"} =>
          spreadsheets[Len(spreadsheets)].worksheets =
              WrittenSheets(dvmn_reviewer_username)

\* C10's case: the second reviewer's spreadsheet is written and its message
\* not yet sent, the first reviewer's message is out.
C10_Witness ==
    /\ pc = "send"
    /\ Len(spreadsheets) = 2
    /\ Len(messages) = 1


====
